---- MODULE Spec2Model ----
(***************************************************************************)
(* Model of src/src/main.rs: the WgpuApp surface context (config, size,    *)
(* size_changed), its render sequence, and the WgpuAppHandler callbacks    *)
(* (resumed, window_event) as the winit event loop drives them.            *)
(*                                                                         *)
(* The event loop is single threaded and window_event holds the mutex for  *)
(* the whole callback, so a callback runs from delivery to return without  *)
(* another callback starting; pc is the position inside the running        *)
(* callback and "idle" means the loop is between callbacks.                *)
(***************************************************************************)
EXTENDS Integers, Sequences, FiniteSets

\* ------------------------------------------------------------------ bounds
\* Largest window dimension the windowing layer reports (u32 in the code;
\* no arithmetic is done on it, only comparison with 0 and max(1)).
MaxDim == 2
\* Saturation value of the construction counters.
MaxCount == 2

Dims == 0..MaxDim

PhysicalSize(w, h) == [width |-> w, height |-> h]

Sizes == {PhysicalSize(w, h) : w \in Dims, h \in Dims}

\* Results of surface.get_current_texture(): Ok or a wgpu::SurfaceError.
AcquireResults == {"Ok", "Lost", "Timeout", "Outdated", "OutOfMemory"}

Inc(n) == IF n < MaxCount THEN n + 1 ELSE MaxCount

\* ------------------------------------------------------------- pure parts
\* Faulty variant: the dimension taken as the window reports it.
ClampDimNone(d) == d

\* size.width.max(1) / size.height.max(1)
ClampDim(d) == IF d > 1 THEN d ELSE 1

\* wgpu::SurfaceConfiguration built by WgpuApp::new
SurfaceConfiguration(s) ==
    [width |-> s.width, height |-> s.height, format |-> "caps.formats[0]",
     present_mode |-> "Fifo", alpha_mode |-> "caps.alpha_modes[0]"]

\* The value of config before any WgpuApp has been constructed.
NoConfig ==
    [width |-> 0, height |-> 0, format |-> "none",
     present_mode |-> "none", alpha_mode |-> "none"]

NoSize == PhysicalSize(0, 0)

\* Faulty variant: || in place of &&.
AcceptsResizeEither(w, h) == w > 0 \/ h > 0

\* physical_size.width > 0 && physical_size.height > 0
AcceptsResize(w, h) == w > 0 /\ h > 0

\* Faulty variant: a pending size is not overwritten by a later one.
set_window_resized_keep_first(cur_size, cur_changed, new_size) ==
    IF new_size = cur_size \/ cur_changed
    THEN [size |-> cur_size, size_changed |-> cur_changed]
    ELSE [size |-> new_size, size_changed |-> TRUE]

\* Faulty variant: the size is recorded but the dirty flag is not set.
set_window_resized_no_flag(cur_size, cur_changed, new_size) ==
    [size |-> new_size, size_changed |-> cur_changed]

\* WgpuApp::set_window_resized: the new (size, size_changed)
set_window_resized(cur_size, cur_changed, new_size) ==
    IF new_size = cur_size
    THEN [size |-> cur_size, size_changed |-> cur_changed]
    ELSE [size |-> new_size, size_changed |-> TRUE]

\* Faulty variant: only the width is copied into the configuration.
resize_surface_if_needed_width_only(cfg, cur_size, cur_changed) ==
    IF cur_changed
    THEN [config |-> [cfg EXCEPT !.width = cur_size.width],
          size_changed |-> FALSE, configured |-> TRUE]
    ELSE [config |-> cfg, size_changed |-> FALSE, configured |-> FALSE]

\* Faulty variant: the dirty flag is not cleared after configure.
resize_surface_if_needed_keep_flag(cfg, cur_size, cur_changed) ==
    IF cur_changed
    THEN [config |-> [cfg EXCEPT !.width = cur_size.width,
                                 !.height = cur_size.height],
          size_changed |-> TRUE, configured |-> TRUE]
    ELSE [config |-> cfg, size_changed |-> FALSE, configured |-> FALSE]

\* WgpuApp::resize_surface_if_needed: the new config and flag, and whether
\* surface.configure was called
resize_surface_if_needed(cfg, cur_size, cur_changed) ==
    IF cur_changed
    THEN [config |-> [cfg EXCEPT !.width = cur_size.width,
                                 !.height = cur_size.height],
          size_changed |-> FALSE, configured |-> TRUE]
    ELSE [config |-> cfg, size_changed |-> FALSE, configured |-> FALSE]

\* Faulty variant: the frame is acquired before the pending resize is
\* applied.
RenderBodyAcquireFirst ==
    <<"get_current_texture", "resize_surface_if_needed",
      "begin_render_pass", "submit", "present">>

\* Faulty variant: the frame is presented before the commands are
\* submitted.
RenderBodyPresentFirst ==
    <<"resize_surface_if_needed", "get_current_texture",
      "begin_render_pass", "present", "submit">>

\* The statements of WgpuApp::render, in program order.
RenderBody ==
    <<"resize_surface_if_needed", "get_current_texture",
      "begin_render_pass", "submit", "present">>

\* The statement of render that follows statement p; "tail" once render
\* has returned to window_event.
NextInBody(p) ==
    LET i == CHOOSE k \in 1..Len(RenderBody) : RenderBody[k] = p
    IN  IF i < Len(RenderBody) THEN RenderBody[i + 1] ELSE "tail"

\* Faulty variant: a surface error ends the event loop.
RedrawTailStopOnError(r) ==
    IF r = "Ok" THEN <<"request_redraw">> ELSE <<"eprintln", "exit">>

\* Faulty variant: a surface error returns before request_redraw.
RedrawTailReturnOnError(r) ==
    IF r = "Ok" THEN <<"request_redraw">> ELSE <<"eprintln">>

\* What the RedrawRequested arm does once render has returned result r:
\* the match on the result, then app.window.request_redraw().
RedrawTail(r) ==
    IF r = "Ok" THEN <<"request_redraw">> ELSE <<"eprintln", "request_redraw">>

\* Faulty variant: the check for an existing context is missing.
ResumedIsSomeNever(some) == FALSE

\* self.app.lock().is_some() at the top of resumed
ResumedIsSome(some) == some

\* Faulty variant: the arms run whether or not a context is published.
ContextPresentAlways(some) == TRUE

\* if let Some(app) = app_guard.as_mut() in window_event
ContextPresent(some) == some

\* ------------------------------------------------------------------ state
VARIABLES
    app_some,         \* the mutex-guarded Option<WgpuApp> is Some
    config,           \* WgpuApp.config
    size,             \* WgpuApp.size
    size_changed,     \* WgpuApp.size_changed
    pc,               \* position inside the running callback, or "idle"
    ev,               \* the event the running callback was called with
    inner_size,       \* window.inner_size() as read by WgpuApp::new
    acquired,         \* result of get_current_texture in the running render
    redraw_requested, \* the window has a redraw request outstanding
    exit_called,      \* event_loop.exit() has been called
    stopped,          \* the event loop has returned from run_app
    ops,              \* calls made by the running callback, in order
    applied,          \* sizes passed to surface.configure by this callback
    frame_config,     \* config at the time the running render acquired
    last_accepted,    \* size of the last notification passed the > 0 test
    entry_config,     \* config at the time the running render was entered
    noted,            \* how many such notifications since the last render
    differed,         \* ... and one of them differed from size on arrival
    prev_failed,      \* the previous render returned an error
    closed,           \* a close request was handled with a context present
    constructed,      \* number of WgpuApp values constructed
    windows,          \* number of windows created
    lock,             \* holder of the mutex around Option<WgpuApp>
    in_flight,        \* frames acquired and not yet presented
    delivered,        \* number of the last redraw callback entered
    completed,        \* number of the last render that returned
    rpc,              \* position of each contending resumed call
    local,            \* the size held by each contending resumed call
    replaced          \* replace() found a context already published

ctx == <<config, size, size_changed>>

frames == <<frame_config, entry_config>>

ghost == <<last_accepted, noted, differed, prev_failed, closed>>

flight == <<in_flight, delivered, completed>>

race == <<rpc, local, replaced>>

vars == <<app_some, config, size, size_changed, pc, ev, inner_size, acquired,
          redraw_requested, exit_called, stopped, ops, applied, frame_config,
          entry_config, last_accepted, noted, differed, prev_failed, closed,
          constructed, windows, lock, in_flight, delivered, completed, rpc,
          local, replaced>>

\* The resumed calls that contend for the mutex when resumed is entered
\* from more than one place at a time.
Handlers == {"resumed_1", "resumed_2"}

\* Redraw callbacks and renders are numbered modulo FrameNumbers.
FrameNumbers == MaxCount + 1

Event(k, w, h) == [kind |-> k, width |-> w, height |-> h]

NoEvent == Event("None", 0, 0)

RenderPcs == {RenderBody[i] : i \in 1..Len(RenderBody)}

Has(s, x) == \E i \in 1..Len(s) : s[i] = x

Count(s, x) == Cardinality({i \in 1..Len(s) : s[i] = x})

\* WgpuAppHandler::default(): no context, nothing delivered yet.
Init ==
    /\ app_some = FALSE
    /\ config = NoConfig
    /\ size = NoSize
    /\ size_changed = FALSE
    /\ pc = "idle"
    /\ ev = NoEvent
    /\ inner_size = NoSize
    /\ acquired = "None"
    /\ redraw_requested = FALSE
    /\ exit_called = FALSE
    /\ stopped = FALSE
    /\ ops = <<>>
    /\ applied = <<>>
    /\ frame_config = NoConfig
    /\ entry_config = NoConfig
    /\ last_accepted = NoSize
    /\ noted = 0
    /\ differed = FALSE
    /\ prev_failed = FALSE
    /\ closed = FALSE
    /\ constructed = 0
    /\ windows = 0
    /\ lock = "free"
    /\ in_flight = 0
    /\ delivered = 0
    /\ completed = 0
    /\ rpc = [h \in Handlers |-> "start"]
    /\ local = [h \in Handlers |-> NoSize]
    /\ replaced = FALSE

\* Faulty variant: an event is handed out while a callback is running.
CanDeliverReentrant == ~stopped

\* The loop hands out the next event only between callbacks (window_event
\* takes &mut self and keeps the mutex until it returns) and only while it
\* is still running.
CanDeliver == pc = "idle" /\ ~stopped /\ lock = "free"

\* ----------------------------------------------------------------- resumed
\* resumed: the is_some check; either return, or create the window.
Resumed ==
    /\ CanDeliver
    /\ ev' = Event("Resumed", 0, 0)
    /\ IF ResumedIsSome(app_some)
       THEN /\ pc' = "return"
            /\ ops' = <<>>
            /\ UNCHANGED <<windows, inner_size>>
       ELSE /\ pc' = "new"
            /\ ops' = <<"create_window">>
            /\ windows' = Inc(windows)
            /\ \E s \in Sizes : inner_size' = s
    /\ UNCHANGED <<app_some, ctx, acquired, redraw_requested, exit_called,
                   stopped, applied, frames, ghost, constructed,
                   lock, flight, race>>

\* pollster::block_on(WgpuApp::new(window)): clamp the window size, build
\* the configuration, configure the surface, size_changed = false.
New ==
    /\ pc = "new"
    /\ LET s == PhysicalSize(ClampDim(inner_size.width),
                             ClampDim(inner_size.height))
       IN  /\ config' = SurfaceConfiguration(s)
           /\ size' = s
           /\ last_accepted' = s
           /\ applied' = Append(applied, s)
    /\ size_changed' = FALSE
    /\ ops' = Append(ops, "configure")
    /\ constructed' = Inc(constructed)
    /\ noted' = 0
    /\ differed' = FALSE
    /\ prev_failed' = FALSE
    /\ pc' = "publish"
    /\ UNCHANGED <<app_some, ev, inner_size, acquired, redraw_requested,
                   exit_called, stopped, frames, closed, windows,
                   lock, flight, race>>

\* self.app.lock().replace(wgpu_app)
Publish ==
    /\ pc = "publish"
    /\ app_some' = TRUE
    /\ pc' = "return"
    /\ UNCHANGED <<ctx, ev, inner_size, acquired, redraw_requested,
                   exit_called, stopped, ops, applied, frames, ghost,
                   constructed, windows,
                   lock, flight, race>>

\* ------------------------------------------------------------ window_event
\* WindowEvent::CloseRequested
CloseRequested ==
    /\ CanDeliver
    /\ ev' = Event("CloseRequested", 0, 0)
    /\ IF ContextPresent(app_some)
       THEN /\ ops' = <<"exit">>
            /\ exit_called' = TRUE
            /\ closed' = TRUE
       ELSE /\ ops' = <<>>
            /\ UNCHANGED <<exit_called, closed>>
    /\ pc' = "return"
    /\ lock' = "event_loop"
    /\ UNCHANGED <<app_some, ctx, inner_size, acquired, redraw_requested,
                   stopped, applied, frames, last_accepted, noted,
                   differed, prev_failed, constructed, windows,
                   flight, race>>

\* WindowEvent::Resized(physical_size)
Resized ==
    /\ CanDeliver
    /\ \E w \in Dims, h \in Dims :
        /\ ev' = Event("Resized", w, h)
        /\ IF ContextPresent(app_some) /\ AcceptsResize(w, h)
           THEN LET r == set_window_resized(size, size_changed,
                                            PhysicalSize(w, h))
                IN  /\ size' = r.size
                    /\ size_changed' = r.size_changed
                    /\ last_accepted' = PhysicalSize(w, h)
                    /\ noted' = Inc(noted)
                    /\ differed' = (differed \/ PhysicalSize(w, h) # size)
           ELSE UNCHANGED <<size, size_changed, last_accepted, noted,
                            differed>>
    /\ ops' = <<>>
    /\ pc' = "return"
    /\ lock' = "event_loop"
    /\ UNCHANGED <<app_some, config, inner_size, acquired, redraw_requested,
                   exit_called, stopped, applied, frames, prev_failed,
                   closed, constructed, windows,
                   flight, race>>

\* WindowEvent::RedrawRequested: pre_present_notify, then enter render.
RedrawRequested ==
    /\ CanDeliver
    /\ redraw_requested
    /\ redraw_requested' = FALSE
    /\ ev' = Event("RedrawRequested", 0, 0)
    /\ IF ContextPresent(app_some)
       THEN /\ ops' = <<"pre_present_notify">>
            /\ entry_config' = config
            /\ delivered' = (delivered + 1) % FrameNumbers
            /\ pc' = RenderBody[1]
       ELSE /\ ops' = <<>>
            /\ UNCHANGED <<entry_config, delivered>>
            /\ pc' = "return"
    /\ lock' = "event_loop"
    /\ UNCHANGED <<app_some, ctx, inner_size, acquired, exit_called, stopped,
                   applied, frame_config, ghost, constructed, windows,
                   in_flight, completed, race>>

\* Any other WindowEvent: the `_ => {}` arm.
OtherEvent ==
    /\ CanDeliver
    /\ ev' = Event("Other", 0, 0)
    /\ ops' = <<>>
    /\ pc' = "return"
    /\ lock' = "event_loop"
    /\ UNCHANGED <<app_some, ctx, inner_size, acquired, redraw_requested,
                   exit_called, stopped, applied, frames, ghost,
                   constructed, windows,
                   flight, race>>

\* ------------------------------------------------------------------ render
\* self.resize_surface_if_needed()
ResizeSurfaceIfNeeded ==
    /\ pc = "resize_surface_if_needed"
    /\ LET r == resize_surface_if_needed(config, size, size_changed)
       IN  /\ config' = r.config
           /\ size_changed' = r.size_changed
           /\ IF r.configured
              THEN /\ ops' = Append(ops, "configure")
                   /\ applied' = Append(applied,
                          PhysicalSize(r.config.width, r.config.height))
              ELSE UNCHANGED <<ops, applied>>
    /\ pc' = NextInBody(pc)
    /\ UNCHANGED <<app_some, size, ev, inner_size, acquired,
                   redraw_requested, exit_called, stopped, frames,
                   ghost, constructed, windows,
                   lock, flight, race>>

\* let output = self.surface.get_current_texture()?;
GetCurrentTexture ==
    /\ pc = "get_current_texture"
    /\ \E r \in AcquireResults :
        /\ acquired' = r
        /\ in_flight' = IF r = "Ok" THEN Inc(in_flight) ELSE in_flight
        /\ pc' = IF r = "Ok" THEN NextInBody(pc) ELSE "tail"
    /\ frame_config' = config
    /\ ops' = Append(ops, "get_current_texture")
    /\ UNCHANGED <<app_some, ctx, ev, inner_size, redraw_requested,
                   exit_called, stopped, applied, entry_config, ghost,
                   constructed, windows,
                   lock, delivered, completed, race>>

\* create_view, create_command_encoder, begin_render_pass with the clear
BeginRenderPass ==
    /\ pc = "begin_render_pass"
    /\ ops' = Append(ops, "begin_render_pass")
    /\ pc' = NextInBody(pc)
    /\ UNCHANGED <<app_some, ctx, ev, inner_size, acquired, redraw_requested,
                   exit_called, stopped, applied, frames, ghost,
                   constructed, windows,
                   lock, flight, race>>

\* self.queue.submit(Some(encoder.finish()))
Submit ==
    /\ pc = "submit"
    /\ ops' = Append(ops, "submit")
    /\ pc' = NextInBody(pc)
    /\ UNCHANGED <<app_some, ctx, ev, inner_size, acquired, redraw_requested,
                   exit_called, stopped, applied, frames, ghost,
                   constructed, windows,
                   lock, flight, race>>

\* output.present()
Present ==
    /\ pc = "present"
    /\ ops' = Append(ops, "present")
    /\ pc' = NextInBody(pc)
    /\ in_flight' = IF in_flight > 0 THEN in_flight - 1 ELSE 0
    /\ UNCHANGED <<app_some, ctx, ev, inner_size, acquired, redraw_requested,
                   exit_called, stopped, applied, frames, ghost,
                   constructed, windows,
                   lock, delivered, completed, race>>

\* Back in window_event: match app.render() {...}; request_redraw().
RedrawTailStep ==
    /\ pc = "tail"
    /\ LET t == RedrawTail(acquired)
       IN  /\ ops' = ops \o t
           /\ redraw_requested' = (redraw_requested \/ Has(t, "request_redraw"))
           /\ exit_called' = (exit_called \/ Has(t, "exit"))
    /\ pc' = "return"
    /\ completed' = (completed + 1) % FrameNumbers
    /\ UNCHANGED <<app_some, ctx, ev, inner_size, acquired, stopped, applied,
                   frames, ghost, constructed, windows,
                   lock, in_flight, delivered, race>>

\* ------------------------------------------------------------- event loop
\* The callback returns to the event loop.
Return ==
    /\ pc = "return"
    /\ pc' = "idle"
    /\ ev' = NoEvent
    /\ ops' = <<>>
    /\ applied' = <<>>
    /\ acquired' = "None"
    /\ inner_size' = NoSize
    /\ frame_config' = NoConfig
    /\ entry_config' = NoConfig
    /\ IF ev.kind = "RedrawRequested" /\ app_some
       THEN /\ noted' = 0
            /\ differed' = FALSE
            /\ prev_failed' = (acquired # "Ok")
       ELSE UNCHANGED <<noted, differed, prev_failed>>
    /\ lock' = "free"
    /\ UNCHANGED <<app_some, ctx, redraw_requested, exit_called, stopped,
                   last_accepted, closed, constructed, windows,
                   flight, race>>

\* The windowing system asks for a redraw of the window (first map,
\* expose); winit keeps one outstanding request per window.
Expose ==
    /\ CanDeliver
    /\ windows > 0
    /\ ~redraw_requested
    /\ redraw_requested' = TRUE
    /\ UNCHANGED <<app_some, ctx, pc, ev, inner_size, acquired, exit_called,
                   stopped, ops, applied, frames, ghost, constructed,
                   windows,
                   lock, flight, race>>

\* run_app returns: after exit() the loop finishes the iteration it is in
\* (which may still hand out events) and then stops for good.
LoopExits ==
    /\ CanDeliver
    /\ exit_called
    /\ stopped' = TRUE
    /\ UNCHANGED <<app_some, ctx, pc, ev, inner_size, acquired,
                   redraw_requested, exit_called, ops, applied, frames,
                   ghost, constructed, windows,
                   lock, flight, race>>

Next ==
    \/ Resumed
    \/ New
    \/ Publish
    \/ CloseRequested
    \/ Resized
    \/ RedrawRequested
    \/ OtherEvent
    \/ ResizeSurfaceIfNeeded
    \/ GetCurrentTexture
    \/ BeginRenderPass
    \/ Submit
    \/ Present
    \/ RedrawTailStep
    \/ Return
    \/ Expose
    \/ LoopExits

Spec == Init /\ [][Next]_vars

\* A callback that has started runs to its return, and the loop delivers a
\* redraw that has been requested for as long as it keeps running.
CallbackStep ==
    \/ New
    \/ Publish
    \/ ResizeSurfaceIfNeeded
    \/ GetCurrentTexture
    \/ BeginRenderPass
    \/ Submit
    \/ Present
    \/ RedrawTailStep
    \/ Return

FairSpec == Spec /\ WF_vars(CallbackStep) /\ SF_vars(RedrawRequested)

\* ------------------------------------------------- contending resumed calls
\* resumed entered from more than one place at a time, each call running
\* the statements of WgpuAppHandler::resumed against the shared
\* Arc<Mutex<Option<WgpuApp>>>, while the event loop goes on delivering
\* window events. The guard of `self.app.lock().is_some()` is dropped at
\* the end of the if condition; `self.app.lock().replace(..)` takes the
\* mutex a second time.

\* self.app.as_ref().lock(): the mutex is taken for the check.
RaceLockCheck(h) ==
    /\ rpc[h] = "start"
    /\ lock = "free"
    /\ lock' = h
    /\ rpc' = [rpc EXCEPT ![h] = "is_some"]
    /\ UNCHANGED <<app_some, ctx, pc, ev, inner_size, acquired,
                   redraw_requested, exit_called, stopped, ops, applied,
                   frames, ghost, constructed, windows, flight, local,
                   replaced>>

\* .is_some(), the guard dropped: return, or go on to create the window.
RaceIsSome(h) ==
    /\ rpc[h] = "is_some"
    /\ lock = h
    /\ lock' = "free"
    /\ rpc' = [rpc EXCEPT ![h] = IF ResumedIsSome(app_some)
                                  THEN "done" ELSE "create_window"]
    /\ UNCHANGED <<app_some, ctx, pc, ev, inner_size, acquired,
                   redraw_requested, exit_called, stopped, ops, applied,
                   frames, ghost, constructed, windows, flight, local,
                   replaced>>

\* event_loop.create_window(..): the window and its inner size.
RaceCreateWindow(h) ==
    /\ rpc[h] = "create_window"
    /\ windows' = Inc(windows)
    /\ \E s \in Sizes : local' = [local EXCEPT ![h] = s]
    /\ rpc' = [rpc EXCEPT ![h] = "new"]
    /\ UNCHANGED <<app_some, ctx, pc, ev, inner_size, acquired,
                   redraw_requested, exit_called, stopped, ops, applied,
                   frames, ghost, constructed, lock, flight, replaced>>

\* pollster::block_on(WgpuApp::new(window)): the context, held locally.
RaceNew(h) ==
    /\ rpc[h] = "new"
    /\ local' = [local EXCEPT ![h] =
                    PhysicalSize(ClampDim(local[h].width),
                                 ClampDim(local[h].height))]
    /\ constructed' = Inc(constructed)
    /\ rpc' = [rpc EXCEPT ![h] = "lock_replace"]
    /\ UNCHANGED <<app_some, ctx, pc, ev, inner_size, acquired,
                   redraw_requested, exit_called, stopped, ops, applied,
                   frames, ghost, windows, lock, flight, replaced>>

\* self.app.lock(): the mutex is taken again, for the publication.
RaceLockReplace(h) ==
    /\ rpc[h] = "lock_replace"
    /\ lock = "free"
    /\ lock' = h
    /\ rpc' = [rpc EXCEPT ![h] = "replace"]
    /\ UNCHANGED <<app_some, ctx, pc, ev, inner_size, acquired,
                   redraw_requested, exit_called, stopped, ops, applied,
                   frames, ghost, constructed, windows, flight, local,
                   replaced>>

\* .replace(wgpu_app): the slot now holds this call's context, whatever
\* it held before; the guard is dropped and resumed returns.
RaceReplace(h) ==
    /\ rpc[h] = "replace"
    /\ lock = h
    /\ replaced' = (replaced \/ app_some)
    /\ app_some' = TRUE
    /\ config' = SurfaceConfiguration(local[h])
    /\ size' = local[h]
    /\ size_changed' = FALSE
    /\ last_accepted' = local[h]
    /\ noted' = 0
    /\ differed' = FALSE
    /\ prev_failed' = FALSE
    /\ local' = [local EXCEPT ![h] = NoSize]
    /\ lock' = "free"
    /\ rpc' = [rpc EXCEPT ![h] = "done"]
    /\ UNCHANGED <<pc, ev, inner_size, acquired, redraw_requested,
                   exit_called, stopped, ops, applied, frames, closed,
                   constructed, windows, flight>>

RaceNext ==
    \/ \E h \in Handlers : RaceLockCheck(h)
    \/ \E h \in Handlers : RaceIsSome(h)
    \/ \E h \in Handlers : RaceCreateWindow(h)
    \/ \E h \in Handlers : RaceNew(h)
    \/ \E h \in Handlers : RaceLockReplace(h)
    \/ \E h \in Handlers : RaceReplace(h)
    \/ CloseRequested
    \/ Resized
    \/ RedrawRequested
    \/ OtherEvent
    \/ ResizeSurfaceIfNeeded
    \/ GetCurrentTexture
    \/ BeginRenderPass
    \/ Submit
    \/ Present
    \/ RedrawTailStep
    \/ Return
    \/ Expose
    \/ LoopExits

RaceSpec == Init /\ [][RaceNext]_vars

\* ------------------------------------------------------------------ claims
\* Calls that touch the surface, the device or the queue.
GraphicsOps ==
    {"configure", "get_current_texture", "begin_render_pass", "submit",
     "present"}

SameSize(c, s) == c.width = s.width /\ c.height = s.height

\* The RedrawRequested arm has run to its end with a context present.
RedrawDone == pc = "return" /\ ev.kind = "RedrawRequested" /\ app_some

\* C1 as stated: whenever one or more accepted resize notifications were
\* handled since the previous render, the render reconfigures the surface
\* exactly once, to the size of the last of them.
C1_ExactlyOneReconfigure ==
    (RedrawDone /\ noted > 0) =>
        /\ Count(ops, "configure") = 1
        /\ applied = <<last_accepted>>

\* C1 as amended: the render that follows one or more accepted resize
\* notifications reconfigures at most once - exactly once when one of the
\* notifications differed from the size recorded when it arrived, not at
\* all otherwise - the configuration then has the size of the last
\* notification, and no other size is ever passed to configure.
C1_Coalesced ==
    /\ \A i \in 1..Len(applied) : applied[i] = last_accepted
    /\ (ev.kind = "Resized" => ~Has(ops, "configure"))
    /\ (RedrawDone /\ noted > 0) =>
          /\ Count(ops, "configure") = (IF differed THEN 1 ELSE 0)
          /\ (differed => applied = <<last_accepted>>)
          /\ SameSize(config, last_accepted)

\* Several notifications, the last one in force, one reconfiguration.
C1_Witness ==
    /\ RedrawDone
    /\ noted >= 2
    /\ differed
    /\ applied = <<last_accepted>>
    /\ ~SameSize(entry_config, last_accepted)

\* C2: the surface is not reconfigured between a frame's acquisition and
\* its presentation (configure never follows get_current_texture inside a
\* callback, a resize callback never configures, and the configuration at
\* present is the one the frame was acquired with), and no noted resize is
\* still unapplied when a frame is acquired.
C2_Debounce ==
    /\ \A i, j \in 1..Len(ops) :
          (ops[i] = "get_current_texture" /\ ops[j] = "configure") => j < i
    /\ (ev.kind = "Resized" => ~Has(ops, "configure"))
    /\ (acquired = "Ok" => config = frame_config)
    /\ (acquired # "None" => ~size_changed /\ SameSize(config, size))

\* A frame presented by a render that first applied a noted resize, after
\* an earlier render.
C2_Witness ==
    /\ RedrawDone
    /\ Has(ops, "present")
    /\ Has(ops, "configure")
    /\ config = frame_config
    /\ config # entry_config

\* C3: at every frame acquisition the configured (width, height) is the
\* size of the last accepted resize notification, or the clamped initial
\* window size when there was none.
C3_NoResizeSkipped ==
    acquired # "None" =>
        /\ SameSize(frame_config, last_accepted)
        /\ SameSize(config, last_accepted)

\* A frame acquired after a size-changing notification.
C3_Witness ==
    /\ acquired = "Ok"
    /\ noted > 0
    /\ differed
    /\ ~SameSize(entry_config, last_accepted)
    /\ SameSize(frame_config, last_accepted)

\* C4: once a context has been constructed its configuration has
\* width >= 1 and height >= 1, whatever the initial window size and
\* whatever resize and redraw events follow.
C4_Clamped ==
    constructed > 0 => config.width >= 1 /\ config.height >= 1

\* Constructed from a (0,0) window: the configuration is (1,1).
C4_Witness ==
    /\ pc = "publish"
    /\ inner_size = PhysicalSize(0, 0)
    /\ config.width = 1
    /\ config.height = 1

\* C5: the callback for a resize notification with a zero dimension
\* changes neither the configuration nor the recorded size nor the dirty
\* flag (nor anything else a later render reads).
C5_IgnoredResize ==
    [][(pc = "idle" /\ ev'.kind = "Resized"
          /\ (ev'.width = 0 \/ ev'.height = 0))
        => UNCHANGED <<config, size, size_changed, app_some,
                       redraw_requested, exit_called>>]_vars

\* A zero-dimension notification handled while a resize is pending.
C5_Witness ==
    /\ pc = "return"
    /\ ev.kind = "Resized"
    /\ (ev.width = 0 \/ ev.height = 0)
    /\ ev.width + ev.height > 0
    /\ app_some
    /\ size_changed
    /\ ~SameSize(config, size)

\* C6: a resume notification delivered while a context exists returns at
\* once - no window is created, nothing is constructed and the context is
\* left as it was - so at most one window and one context are ever
\* created, and a published context is the one constructed.
C6_ResumeIdempotent ==
    /\ [](constructed <= 1 /\ windows <= 1 /\ (app_some => constructed = 1))
    /\ [][(pc = "idle" /\ ev'.kind = "Resumed" /\ app_some)
            => /\ pc' = "return"
               /\ ops' = <<>>
               /\ UNCHANGED <<app_some, config, size, size_changed,
                              constructed, windows>>]_vars

\* A second resume handled while the context holds a pending resize.
C6_Witness ==
    /\ pc = "return"
    /\ ev.kind = "Resumed"
    /\ ops = <<>>
    /\ app_some
    /\ size_changed
    /\ constructed = 1
    /\ windows = 1

\* C7 as stated: once a close request has been handled with a context
\* present, no later callback performs a graphics operation.
C7_TerminatedAbsorbing ==
    closed => \A i \in 1..Len(ops) : ops[i] \notin GraphicsOps

\* C8: a render whose acquisition fails (Lost or any other surface error)
\* submits and presents nothing, the callback does not call exit and ends
\* by requesting another redraw; a render whose acquisition succeeds,
\* also right after a failed one, submits and then presents its frame.
C8_Recoverable ==
    RedrawDone =>
        /\ acquired # "None"
        /\ ~Has(ops, "exit")
        /\ redraw_requested
        /\ ops[Len(ops)] = "request_redraw"
        /\ (acquired # "Ok" => ~Has(ops, "submit") /\ ~Has(ops, "present"))
        /\ (acquired = "Ok" =>
              /\ Count(ops, "submit") = 1
              /\ Count(ops, "present") = 1
              /\ ops[Len(ops) - 1] = "present"
              /\ ops[Len(ops) - 2] = "submit")

\* A frame presented by the render that follows a failed one.
C8_Witness ==
    /\ RedrawDone
    /\ prev_failed
    /\ ~exit_called
    /\ acquired = "Ok"
    /\ Has(ops, "present")

\* C9 as stated: a render reconfigures the surface only when the size it
\* applies differs from the size the surface is configured to.
C9_OnlyIfSizeDiffers ==
    (ev.kind = "RedrawRequested" /\ Has(ops, "configure")) =>
        \E i \in 1..Len(applied) : ~SameSize(entry_config, applied[i])

\* One redraw callback: one pre_present_notify, one render (one attempt
\* to acquire), then one request_redraw as its last call.
C10_OneRenderOneRequest ==
    RedrawDone =>
        /\ Count(ops, "pre_present_notify") = 1
        /\ Count(ops, "get_current_texture") = 1
        /\ Count(ops, "request_redraw") = 1
        /\ ops[Len(ops)] = "request_redraw"
        /\ redraw_requested

\* C10: every redraw request handled with a context present performs one
\* render call and then requests one further redraw, whether the render
\* succeeded or failed; and when requested redraws are delivered, each
\* request is followed by a frame attempt unless exit has been called.
C10_RedrawLoop ==
    /\ []C10_OneRenderOneRequest
    /\ ((app_some /\ redraw_requested) ~> (exit_called \/ acquired # "None"))

\* A failed render that has still requested the next redraw, following
\* an earlier failed one.
C10_Witness ==
    /\ RedrawDone
    /\ acquired = "Lost"
    /\ prev_failed
    /\ redraw_requested
    /\ ~exit_called

\* The graphics calls of the running callback, in the order made.
GraphicsCalls == SelectSeq(ops, LAMBDA x : x \in GraphicsOps)

\* The calls of one frame after the optional reconfiguration.
FrameOrder ==
    <<"get_current_texture", "begin_render_pass", "submit", "present">>

IsPrefix(a, b) == Len(a) <= Len(b) /\ \A i \in 1..Len(a) : a[i] = b[i]

\* C11: the graphics calls of a render are, in this order, an optional
\* configure, get_current_texture, begin_render_pass (the clear), submit,
\* present; present follows submit and is made only for a frame that was
\* acquired; after a failed acquisition nothing else is called, and
\* acquisition is attempted once per render.
C11_FrameStepOrder ==
    ev.kind = "RedrawRequested" =>
        LET g == GraphicsCalls
            f == IF g # <<>> /\ g[1] = "configure" THEN Tail(g) ELSE g
        IN  /\ IsPrefix(f, FrameOrder)
            /\ (Has(ops, "present") => acquired = "Ok" /\ Has(ops, "submit"))
            /\ (acquired \notin {"Ok", "None"} => f = <<"get_current_texture">>)
            /\ (RedrawDone /\ acquired = "Ok" => f = FrameOrder)
            /\ Count(ops, "get_current_texture") <= 1

\* A render that reconfigured, acquired, cleared, submitted and presented.
C11_Witness ==
    /\ RedrawDone
    /\ ops = <<"pre_present_notify", "configure", "get_current_texture",
               "begin_render_pass", "submit", "present", "request_redraw">>

\* C13: the configuration changes only in WgpuApp::new and in render's
\* apply step; the (width, height) it then holds is the pair of one
\* accepted notification (the last one) or the clamped initial size,
\* taken whole; and format, present mode and alpha mode are those set at
\* construction.
C13_ConfigWholeAndFixed ==
    /\ [](constructed > 0 =>
            /\ config.format = SurfaceConfiguration(size).format
            /\ config.present_mode = SurfaceConfiguration(size).present_mode
            /\ config.alpha_mode = SurfaceConfiguration(size).alpha_mode)
    /\ [][config' # config =>
            /\ pc \in {"new", "resize_surface_if_needed"}
            /\ SameSize(config', last_accepted')
            /\ (pc = "resize_surface_if_needed" =>
                  /\ last_accepted' = last_accepted
                  /\ config' = [config EXCEPT
                                  !.width = last_accepted.width,
                                  !.height = last_accepted.height])]_vars

\* An apply step that changed the width and the height together.
C13_Witness ==
    /\ pc = "get_current_texture"
    /\ Has(ops, "configure")
    /\ config.width # entry_config.width
    /\ config.height # entry_config.height
    /\ SameSize(config, last_accepted)
    /\ config.format = entry_config.format

\* C14: a resize notification equal to the recorded size leaves the dirty
\* flag as it was; the render's apply step leaves the flag clear; and a
\* render with no size-changing notification since the previous render
\* (or since construction) does not reconfigure.
C14_RepeatsAreNoOps ==
    /\ [](pc \in (RenderPcs \cup {"tail"}) \ {"resize_surface_if_needed"}
            => ~size_changed)
    /\ [](RedrawDone => ~size_changed)
    /\ [](RedrawDone /\ ~differed => ~Has(ops, "configure"))
    /\ [][(pc = "idle" /\ ev'.kind = "Resized" /\ app_some
            /\ PhysicalSize(ev'.width, ev'.height) = size)
          => UNCHANGED <<size, size_changed, config>>]_vars

\* A render that follows only exact-repeat notifications and does not
\* reconfigure.
C14_Witness ==
    /\ RedrawDone
    /\ noted > 0
    /\ ~differed
    /\ ~Has(ops, "configure")
    /\ SameSize(config, last_accepted)
    /\ acquired = "Ok"

\* C16: for a constructed context, a clear dirty flag means the recorded
\* size is the configured size.
C16_DirtyFlagConsistent ==
    (constructed > 0 /\ ~size_changed) => SameSize(config, size)

\* The recorded size differs from the configured one and the flag is set.
C16_Witness ==
    /\ app_some
    /\ pc = "idle"
    /\ size_changed
    /\ ~SameSize(config, size)

\* C17: a render whose acquisition fails has still applied the pending
\* resize (configuration at the pending size, dirty flag clear) before
\* trying to acquire, and the render after a failed one reconfigures only
\* if a size-changing notification was handled in between.
C17_ConsumedOnFailure ==
    /\ (acquired \notin {"Ok", "None"} =>
          /\ ~size_changed
          /\ SameSize(config, size)
          /\ SameSize(frame_config, last_accepted)
          /\ (differed => Has(ops, "configure")))
    /\ (RedrawDone /\ acquired \notin {"Ok", "None"} =>
          Count(ops, "configure") = (IF differed THEN 1 ELSE 0))
    /\ (RedrawDone /\ prev_failed =>
          Count(ops, "configure") = (IF differed THEN 1 ELSE 0))

\* A failed render that changed the configuration.
C17_Witness ==
    /\ RedrawDone
    /\ acquired = "Lost"
    /\ Has(ops, "configure")
    /\ config # entry_config
    /\ ~size_changed

\* The running callback is a render that has not yet returned.
Rendering == pc \in RenderPcs \cup {"tail"}

\* C12: at most one frame is in flight; a render starts to acquire only
\* when no frame is in flight; between callbacks no frame is in flight
\* and every render entered has returned; and the render that is running
\* is the one entered right after the last render that returned, so
\* frames are presented in the order their redraw requests were
\* delivered.
C12_OneFrameInFlight ==
    /\ in_flight <= 1
    /\ (pc = "get_current_texture" => in_flight = 0)
    /\ (in_flight = 1 <=> (acquired = "Ok" /\ ~Has(ops, "present")))
    /\ (pc = "idle" => in_flight = 0 /\ completed = delivered)
    /\ (Rendering => delivered = (completed + 1) % FrameNumbers)
    /\ (Has(ops, "present") =>
          delivered = (completed + (IF pc = "return" THEN 0 ELSE 1))
                        % FrameNumbers)

\* The second frame is presented after the first render has returned.
C12_Witness ==
    /\ pc = "tail"
    /\ Has(ops, "present")
    /\ in_flight = 0
    /\ completed = 1
    /\ delivered = 2
    /\ ~prev_failed

WindowEventKinds == {"CloseRequested", "Resized", "RedrawRequested", "Other"}

\* C18: a window event delivered while no context is published - before
\* any resumed call, or while one is still creating the window or
\* constructing the context - is ignored: the callback makes no call at
\* all (no graphics call, no request_redraw, no exit), records no size,
\* and returns.
C18_IgnoredWhileUninitialized ==
    /\ []((pc # "idle" /\ ev.kind \in WindowEventKinds /\ ~app_some)
            => pc = "return" /\ ops = <<>> /\ applied = <<>>)
    /\ [][(pc = "idle" /\ ev'.kind \in WindowEventKinds /\ ~app_some)
            => /\ pc' = "return"
               /\ ops' = <<>>
               /\ UNCHANGED <<app_some, config, size, size_changed,
                              exit_called, closed, last_accepted, noted,
                              in_flight>>
               /\ (redraw_requested' => redraw_requested)]_vars

\* A redraw request ignored while a resumed call is constructing the
\* context for the window it created.
C18_Witness ==
    /\ pc = "return"
    /\ ev.kind = "RedrawRequested"
    /\ ~app_some
    /\ ops = <<>>
    /\ windows = 1
    /\ \E h \in Handlers : rpc[h] = "new"

====
